---- MODULE Spec2Model ----
(***************************************************************************)
(* BFAST (Binary Format for Array Streaming and Transmission).             *)
(* Model of src/include/bfast.h (BfastData, BfastRawData) and of the       *)
(* older copy of the writer in src/sandbox/bfast.h (BfastBuilder, whose    *)
(* compute_offsets / compute_data_start / compute_needed_size / copy_to    *)
(* are line for line the ones of BfastRawData).                            *)
(*                                                                         *)
(* A byte is a number in 0..255.  A machine integer is the sequence of its *)
(* bytes, least significant first (the machine is little-endian, as in     *)
(* section 6 of the spec): 8 bytes for a ulong, a size_t or a pointer      *)
(* difference, 4 bytes for an int.  All arithmetic on them is done on the  *)
(* bytes, so it is exact and wraps at the width of the type.               *)
(* Stream positions are 0-based as in the code; TLA+ sequences are 1-based.*)
(***************************************************************************)
EXTENDS Integers, Sequences, FiniteSets, TLC

\* ---------------------------------------------------------------- bounds
MaxBuffers       == 2   \* named buffers handed to BfastData
MaxRanges        == 2   \* byte ranges handed to BfastRawData / BfastBuilder
MaxNameLen       == 1   \* characters of a buffer name
MaxDataLen       == 1   \* bytes of a short data buffer
MaxGarbageRanges == 4   \* ranges of a container that was never initialised

\* ------------------------------------------------------ program constants
MAGIC               == 49061     \* 0xBFA5
header_size         == 32
array_offset_size   == 16
array_offsets_start == 64
alignment           == 64

\* the largest value of an int (the cursor of copy_to is an int)
INT_MAX == 2147483647

\* ------------------------------------------------------- machine integers
\* A byte whose value the program does not determine: a byte read from
\* behind the end of a vector, a byte of an object that was never
\* initialised, or a byte that a store past the end of a vector may have
\* overwritten.  It may have any value; a state with such bytes stands for
\* every run that differs from it in these bytes only.
Indeterminate == 0 - 1

Determinate(w) == \A k \in 1..Len(w) : w[k] # Indeterminate

IndeterminateWord == [k \in 1..8 |-> Indeterminate]

\* The ulong (uint64_t, size_t) with the value n, for 0 <= n <= INT_MAX.
ulong(n) ==
    << n % 256, (n \div 256) % 256, (n \div 65536) % 256,
       (n \div 16777216) % 256, 0, 0, 0, 0 >>

\* A ulong below 2^31, and its value.
IsSmall(w) ==
    /\ Determinate(w)
    /\ w[4] < 128
    /\ \A k \in 5..8 : w[k] = 0

Value(w) == w[1] + 256 * w[2] + 65536 * w[3] + 16777216 * w[4]

\* a + b + carry on two integers of the same width, modulo 2^width
RECURSIVE AddBytes(_, _, _)
AddBytes(a, b, carry) ==
    IF a = <<>> THEN <<>>
    ELSE LET s == Head(a) + Head(b) + carry
         IN  <<s % 256>> \o AddBytes(Tail(a), Tail(b), s \div 256)

Plus(a, b) == AddBytes(a, b, 0)

\* a - b, modulo 2^width: a + ~b + 1
Minus(a, b) == AddBytes(a, [k \in 1..Len(b) |-> 255 - b[k]], 1)

\* The unsigned comparisons.  With indeterminate bytes in an operand the
\* outcome of a comparison may depend on their value: MayEqual and Less say
\* that the comparison holds for some value of them.  On determinate
\* operands they are a = b and a < b.
Lo(c) == IF c = Indeterminate THEN 0 ELSE c
Hi(c) == IF c = Indeterminate THEN 255 ELSE c

MayEqualByte(x, y) ==
    IF x = Indeterminate THEN TRUE
    ELSE IF y = Indeterminate THEN TRUE
    ELSE x = y

MayEqual(a, b) == \A k \in 1..Len(a) : MayEqualByte(a[k], b[k])

RECURSIVE Less(_, _)
Less(a, b) ==
    IF a = <<>> THEN FALSE
    ELSE LET n == Len(a)
         IN  IF Lo(a[n]) < Hi(b[n]) THEN TRUE
             ELSE IF MayEqualByte(a[n], b[n])
                  THEN Less(SubSeq(a, 1, n - 1), SubSeq(b, 1, n - 1))
                  ELSE FALSE

\* !(a < b) holds for some value of the indeterminate bytes
NotLess(a, b) == IF Less(b, a) THEN TRUE ELSE MayEqual(a, b)

\* The conversions between int and size_t: sign extension, truncation.
ToUlong(c) ==
    c \o (IF c[4] >= 128 THEN <<255, 255, 255, 255>> ELSE <<0, 0, 0, 0>>)

ToInt(w) == SubSeq(w, 1, 4)

\* current += n for the int current and a size_t n: the sum is computed in
\* size_t and converted back to int.
AddToInt(cur, n) == ToInt(Plus(ToUlong(cur), n))

\* ------------------------------------------------------------ byte helpers
Zeros(n) == [k \in 1..n |-> 0]

Min(a, b) == IF a < b THEN a ELSE b

\* bytes [from, to) of a stream, 0-based, clipped to the stream
Slice(s, from, to) == SubSeq(s, from + 1, Min(to, Len(s)))

\* ----------------------------------------------------------- byte ranges
\* A ByteRange is two pointers into memory of the caller.  The model keeps
\* what copy_to uses of it: size(), and the bytes between the pointers.
ByteRange(bytes) == [bytes |-> bytes, size |-> ulong(Len(bytes))]

\* A range of 2^31 bytes.  Of a range this large the model keeps the size
\* only.
BigRange == [bytes |-> <<>>, size |-> Plus(ulong(INT_MAX), ulong(1))]

\* A ByteRange that was never initialised: two garbage pointers.
GarbageRange == [bytes |-> <<>>, size |-> IndeterminateWord]

\* An indeterminate number of ranges, none included, each of them empty or
\* garbage: what a vector<ByteRange> holds whose begin and end are not
\* determined.  As the last element of a container it stands for all the
\* ranges that follow.
FurtherRanges == [bytes |-> <<Indeterminate>>, size |-> IndeterminateWord]

\* the ranges whose bytes the model holds
AllHeld(rs) == \A k \in 1..Len(rs) : rs[k].size = ulong(Len(rs[k].bytes))

SizesDeterminate(rs) == \A k \in 1..Len(rs) : Determinate(rs[k].size)

\* ----------------------------------------------------------- input domains
NameChars == {97}                \* 'a'
DataBytes == {7}

RECURSIVE SeqsUpTo(_, _)
SeqsUpTo(S, n) ==
    IF n = 0 THEN {<<>>}
    ELSE LET shorter == SeqsUpTo(S, n - 1)
         IN  shorter \cup {Append(s, x) : s \in shorter, x \in S}

\* One block of exactly `alignment` non-zero bytes: a buffer that needs no
\* padding after it.
FullBlock == [k \in 1..alignment |-> 7]

Names       == SeqsUpTo(NameChars, MaxNameLen)
HeldRanges  == {ByteRange(b) : b \in SeqsUpTo(DataBytes, MaxDataLen) \cup {FullBlock}}
RangeValues == HeldRanges \cup {BigRange}
Buffers     == [name : Names, data : HeldRanges]

\* ------------------------------------------------------------- alignment
\* n % alignment: alignment divides 256, so the least significant byte
\* decides.
is_aligned(n) == n[1] % alignment = 0

aligned_value_noround(n) == n

aligned_value(n) ==
    IF is_aligned(n) THEN n
    ELSE Minus(Plus(n, ulong(alignment)), ulong(n[1] % alignment))

\* ------------------------------------------------------- offset table
ArrayOffset(b, e) == [_begin |-> b, _end |-> e]

compute_data_start(rs) ==
    LET r1 == Plus(ulong(0), ulong(header_size))
        r2 == aligned_value(r1)
        r3 == Plus(r2, ulong(array_offset_size * Len(rs)))
    IN  aligned_value(r3)

RECURSIVE offsets_from(_, _)
offsets_from(n, rs) ==
    IF rs = <<>> THEN <<>>
    ELSE LET offset == ArrayOffset(n, Plus(n, Head(rs).size))
         IN  <<offset>> \o
             offsets_from(aligned_value(Plus(n, Head(rs).size)), Tail(rs))

RECURSIVE offsets_packed(_, _)
offsets_packed(n, rs) ==
    IF rs = <<>> THEN <<>>
    ELSE LET offset == ArrayOffset(n, Plus(n, Head(rs).size))
         IN  <<offset>> \o offsets_packed(Plus(n, Head(rs).size), Tail(rs))

compute_offsets_unaligned(rs) == offsets_packed(compute_data_start(rs), rs)

compute_offsets(rs) == offsets_from(compute_data_start(rs), rs)

compute_needed_size(rs) ==
    LET tmp == compute_offsets(rs)
    IN  IF Len(tmp) = 0 THEN compute_data_start(rs)
        ELSE tmp[Len(tmp)]._end

\* ------------------------------------------------------------ serialising
\* Header and ArrayOffset are structs of ulong fields without padding; the
\* element copy_to writes the sizeof(T) bytes of the object.
Header(magic, data_start, data_end, num_arrays) ==
    [magic |-> magic, data_start |-> data_start,
     data_end |-> data_end, num_arrays |-> num_arrays]

HeaderBytes(hd) ==
    hd.magic \o hd.data_start \o hd.data_end \o hd.num_arrays

ArrayOffsetBytes(off) == off._begin \o off._end

\* `bytes` stored from index p of the bytes mem on: the part that falls
\* inside mem.
StoreAt(mem, p, bytes) ==
    [k \in 1..Len(mem) |->
        IF k - 1 >= p /\ k - 1 < p + Len(bytes)
        THEN bytes[k - p] ELSE mem[k]]

\* Storing `bytes` through an output pointer at position pos of the vector
\* r, of which the model holds the bytes mem.
WriteAt(mem, pos, bytes) ==
    IF IsSmall(pos) /\ Value(pos) < Len(mem)
    THEN StoreAt(mem, Value(pos), bytes)
    ELSE mem

\* The number of bytes that a store of n bytes at position pos puts past
\* the end of a vector of `size` bytes.
Overrun(size, pos, n) ==
    LET end == Plus(pos, n)
    IN  IF ~Less(size, end) THEN 0
        ELSE Value(Minus(end, IF Less(size, pos) THEN pos ELSE size))

\* output_padding: the number of iterations of its loop from cursor `cur`,
\* each of which stores one zero byte and increments the cursor.
padding_count(cur) ==
    (alignment - (ToUlong(cur)[1] % alignment)) % alignment

\* Zero bytes stored past the end of r land in what the heap holds behind
\* r, whatever that is.  It may be memory of the caller that pack reads:
\*  - the bytes of ranges being packed: the first bytes of such a range, n
\*    at most, are zero afterwards, or some of them are;
\*  - the ByteRange objects in the storage of the vector `ranges`: the
\*    stores reach the storage from its start on, so that the first ranges
\*    have two null pointers (an empty range) and the one after them may
\*    have a pointer of which a part is overwritten (a garbage range);
\*  - the vector `ranges` itself: with begin and end null it holds no range,
\*    with one of them overwritten in part its ranges are not determined.
\* Any number of these happen in one call.
Overwritten(r, n) ==
    [bytes |-> [k \in 1..Len(r.bytes) |->
                   IF k <= n THEN Indeterminate ELSE r.bytes[k]],
     size  |-> r.size]

ObjectsClobbered(rs, n) ==
    { [j \in 1..Len(rs) |->
          IF j <= e THEN ByteRange(<<>>)
          ELSE IF j = e + 1 /\ g THEN GarbageRange
          ELSE rs[j]] :
      e \in 0..Min(Len(rs), n \div array_offset_size), g \in BOOLEAN }

BytesClobbered(rs, s, n) ==
    { t \in [1..Len(rs) -> {s[j] : j \in 1..Len(rs)} \cup
                           {Overwritten(rs[j], n) : j \in 1..Len(rs)}] :
          \A j \in 1..Len(rs) :
              \/ t[j] = s[j]
              \/ s[j] = rs[j] /\ t[j] = Overwritten(rs[j], n) }

Clobbered(rs, n) ==
    IF n = 0 THEN {rs}
    ELSE UNION {BytesClobbered(rs, s, n) : s \in ObjectsClobbered(rs, n)}
         \cup {<<FurtherRanges>>}
         \cup (IF n >= array_offset_size THEN {<<>>} ELSE {})

\* ------------------------------------------------------------ name table
\* to_raw_data: names += b.name + '\0' for each buffer, in order.
RECURSIVE EncodeNames(_)
EncodeNames(bs) ==
    IF bs = <<>> THEN <<>>
    ELSE Head(bs).name \o <<0>> \o EncodeNames(Tail(bs))

\* The BfastRawData r that to_raw_data builds: the range of name_data first,
\* then the data range of every buffer.
RawDataWith(name_data, bs) ==
    <<ByteRange(name_data)>> \o [k \in 1..Len(bs) |-> bs[k].data]

\* `names`, which the loop appends to, is not declared in the source.  Read
\* as the string argument (the comment of the function says the argument
\* stores the names data), name_data holds the encoded names; read as a
\* string of its own, name_data stays empty.  Both readings are kept.
RawDataOf(bs) ==
    {RawDataWith(EncodeNames(bs), bs), RawDataWith(<<>>, bs)}

\* A BfastRawData that was never initialised: a vector<ByteRange> whose
\* begin and end are garbage.  Whatever lies between them is its ranges,
\* each one empty (two equal pointers, such as two null pointers) or
\* garbage: up to MaxGarbageRanges of them one by one, and any number of
\* them as <<FurtherRanges>>.
IndeterminateRawData ==
    SeqsUpTo({ByteRange(<<>>), GarbageRange}, MaxGarbageRanges)
        \cup {<<FurtherRanges>>}

\* to_raw_data has no return statement: it builds r, r is destroyed with
\* the frame of the call, and control flows off the end of a function that
\* returns a BfastRawData.  What the caller receives, if the call returns
\* at all (to_raw_data_abort below), is an object that was never
\* initialised, whatever r was.
to_raw_data(bs) ==
    LET r == RawDataOf(bs)
    IN  IndeterminateRawData

\* ------------------------------------------------------------------ state
\* What a caller holds of the value of a call: nothing before the call,
\* the value that a return statement handed back, or, after a call that
\* flowed off the end of a function, an object of indeterminate value.
NotCalled == [state |-> "none", value |-> <<>>]

Returned(v) == [state |-> "returned", value |-> v]

IndeterminateReturn == [state |-> "indeterminate", value |-> <<>>]

VARIABLES
    pc,        \* position of the single thread of control
    caller,    \* "data": entered through BfastData, "raw": through
               \* BfastRawData, "builder": through BfastBuilder,
               \* "none": nothing called yet
    buffers,   \* BfastData::buffers of the object being packed
    ranges,    \* BfastRawData::ranges of the object being packed
    input,     \* pack: ranges as they were when pack was called
    offsets,   \* copy_to: local `offsets`
    out,       \* pack: the bytes held of the vector r that copy_to fills:
               \* all of r, or, if a range is not held, the part of r
               \* before data_start (header and offset table)
    outsize,   \* pack: r.size()
    outpos,    \* copy_to: position of the output pointer `out` in r
    current,   \* copy_to: the cursor `current`, an int
    i,         \* loop index of copy_to and of unpack
    overrun,   \* bytes stored past the end of r so far
    data,      \* unpack: the argument `data`
    h,         \* unpack: the header read from data
    uranges,   \* unpack: r.ranges, as positions [_begin, _end) in data
    oobread,   \* unpack: offset entries read from beyond the end of data
    ret,       \* to_bytes: the vector its caller receives
    err,       \* exception thrown, "none" if none
    result     \* BfastData::unpack: the BfastData its caller receives

vars == <<pc, caller, buffers, ranges, input, offsets, out, outsize, outpos,
          current, i, overrun, data, h, uranges, oobread, ret, err, result>>

packVars   == <<buffers, ranges, input, offsets, out, outsize, outpos, current,
                overrun>>
unpackVars == <<data, h, uranges, oobread, err, result>>

NoHeader == Header(ulong(0), ulong(0), ulong(0), ulong(0))

Init ==
    /\ pc = "idle"
    /\ caller = "none"
    /\ buffers = <<>>
    /\ ranges = <<>>
    /\ input = <<>>
    /\ offsets = <<>>
    /\ out = <<>>
    /\ outsize = ulong(0)
    /\ outpos = ulong(0)
    /\ current = ToInt(ulong(0))
    /\ i = 0
    /\ overrun = 0
    /\ data = <<>>
    /\ h = NoHeader
    /\ uranges = <<>>
    /\ oobread = 0
    /\ ret = NotCalled
    /\ err = "none"
    /\ result = NotCalled

\* ------------------------------------------------------------------- pack
\* BfastData::add: buffers.push_back(Buffer{name, ByteRange{begin, end}}).
add ==
    /\ pc = "idle"
    /\ caller \in {"none", "data"}
    /\ Len(buffers) < MaxBuffers
    /\ \E b \in Buffers : buffers' = Append(buffers, b)
    /\ caller' = "data"
    /\ UNCHANGED <<input, pc, ranges, offsets, out, outsize, outpos, current, i,
                   overrun>>
    /\ UNCHANGED unpackVars
    /\ UNCHANGED ret

\* add has no return statement although it returns a BfastData&: the
\* buffer is pushed, then control flows off the end of the function, and
\* the run may stop there instead of going back to the caller.
add_abort ==
    /\ pc = "idle"
    /\ caller \in {"none", "data"}
    /\ Len(buffers) < MaxBuffers
    /\ \E b \in Buffers : buffers' = Append(buffers, b)
    /\ caller' = "data"
    /\ pc' = "crashed"
    /\ UNCHANGED <<input, ranges, offsets, out, outsize, outpos, current, i,
                   overrun>>
    /\ UNCHANGED unpackVars
    /\ UNCHANGED ret

\* BfastData::pack up to the call of BfastRawData::pack:
\* to_raw_data(name_data) yields the raw container.
BfastData_pack ==
    /\ pc = "idle"
    /\ caller \in {"none", "data"}
    /\ \E r \in to_raw_data(buffers) : ranges' = r
    /\ caller' = "data"
    /\ pc' = "pack"
    /\ UNCHANGED <<input, buffers, offsets, out, outsize, outpos, current, i,
                   overrun>>
    /\ UNCHANGED unpackVars
    /\ UNCHANGED ret

\* BfastData::pack when the call of to_raw_data does not return: flowing
\* off the end of to_raw_data stops the run.
to_raw_data_abort ==
    /\ pc = "idle"
    /\ caller \in {"none", "data"}
    /\ caller' = "data"
    /\ pc' = "crashed"
    /\ UNCHANGED <<i>>
    /\ UNCHANGED packVars
    /\ UNCHANGED unpackVars
    /\ UNCHANGED ret

\* A caller pushes one range on the public member BfastRawData::ranges.
push_range ==
    /\ pc = "idle"
    /\ caller \in {"none", "raw"}
    /\ Len(ranges) < MaxRanges
    /\ \E r \in RangeValues : ranges' = Append(ranges, r)
    /\ caller' = "raw"
    /\ UNCHANGED <<input, pc, buffers, offsets, out, outsize, outpos, current, i,
                   overrun>>
    /\ UNCHANGED unpackVars
    /\ UNCHANGED ret

\* BfastBuilder::add_array: ranges.push_back({begin, end}).
add_array ==
    /\ pc = "idle"
    /\ caller \in {"none", "builder"}
    /\ Len(ranges) < MaxRanges
    /\ \E r \in RangeValues : ranges' = Append(ranges, r)
    /\ caller' = "builder"
    /\ UNCHANGED <<input, pc, buffers, offsets, out, outsize, outpos, current, i,
                   overrun>>
    /\ UNCHANGED unpackVars
    /\ UNCHANGED ret

\* the model holds all of r
StreamHeld == IsSmall(outsize) /\ Len(out) = Value(outsize)

\* The bytes held of a vector value-initialised for the ranges rs.
NewVector(rs) ==
    Zeros(Value(IF AllHeld(rs) THEN compute_needed_size(rs)
                ELSE compute_data_start(rs)))

\* BfastRawData::pack, called by BfastData::pack or by a caller that filled
\* ranges: vector<byte> r(compute_needed_size()) value-initialises its
\* elements, then copy_to(r.data()) starts.
BfastRawData_pack ==
    /\ \/ pc = "pack"
       \/ pc = "idle" /\ caller \in {"none", "raw"}
    /\ SizesDeterminate(ranges)
    /\ caller' = IF caller = "none" THEN "raw" ELSE caller
    /\ input' = ranges
    /\ out' = NewVector(ranges)
    /\ outsize' = compute_needed_size(ranges)
    /\ outpos' = ulong(0)
    /\ pc' = "copy_to"
    /\ UNCHANGED <<buffers, ranges, offsets, current, i, overrun>>
    /\ UNCHANGED unpackVars
    /\ UNCHANGED ret

\* BfastBuilder::to_bytes up to the call of copy_to: the same two
\* statements as BfastRawData::pack.
to_bytes ==
    /\ pc = "idle"
    /\ caller \in {"none", "builder"}
    /\ caller' = "builder"
    /\ input' = ranges
    /\ out' = NewVector(ranges)
    /\ outsize' = compute_needed_size(ranges)
    /\ outpos' = ulong(0)
    /\ pc' = "copy_to"
    /\ UNCHANGED <<buffers, ranges, offsets, current, i, overrun>>
    /\ UNCHANGED unpackVars
    /\ UNCHANGED ret

\* vector<byte> r(compute_needed_size()) throws instead of allocating:
\* bad_alloc for a size of 2^31 bytes or more that the machine does not
\* have, length_error or bad_alloc for the indeterminate size that a
\* garbage range gives.
pack_throw ==
    /\ pc \in {"pack", "idle"}
    /\ caller # "none"
    /\ \/ /\ ~SizesDeterminate(ranges)
          /\ err' \in {"length_error", "bad_alloc"}
       \/ /\ SizesDeterminate(ranges)
          /\ ~IsSmall(compute_needed_size(ranges))
          /\ err' = "bad_alloc"
    /\ pc' = "pack_thrown"
    /\ UNCHANGED <<caller, i, data, h, uranges, oobread, result>>
    /\ UNCHANGED packVars
    /\ UNCHANGED ret

\* BfastRawData::pack on a container with a garbage range, or with a
\* number of ranges that is not determined, when the vector is allocated:
\* copy_to copies what lies between two garbage pointers.  The read
\* faults, or pack returns a stream of which neither the size nor the
\* number of arrays nor the bytes are determined (192 bytes with
\* num_arrays = 5 for five empty ranges, for one).
pack_garbage ==
    /\ pc = "pack"
    /\ ~SizesDeterminate(ranges)
    /\ pc' \in {"crashed", "packed_indeterminate"}
    /\ UNCHANGED <<caller, i>>
    /\ UNCHANGED packVars
    /\ UNCHANGED unpackVars
    /\ UNCHANGED ret

\* copy_to, up to and including the copy of the header.
CopyHeader ==
    /\ pc = "copy_to"
    /\ LET offs == compute_offsets(ranges)
           n    == Len(offs)
           hd   == Header(ulong(MAGIC),
                          IF n = 0 THEN ulong(0) ELSE offs[1]._begin,
                          IF n = 0 THEN ulong(0) ELSE offs[n]._end,
                          ulong(n))
       IN  /\ offsets' = offs
           /\ out' = WriteAt(out, outpos, HeaderBytes(hd))
           /\ overrun' = overrun + Overrun(outsize, outpos, ulong(header_size))
           /\ outpos' = Plus(outpos, ulong(header_size))
           /\ current' = AddToInt(ToInt(ulong(0)), ulong(header_size))
    /\ pc' = "header_padding"
    /\ UNCHANGED <<input, caller, buffers, ranges, outsize, i>>
    /\ UNCHANGED unpackVars
    /\ UNCHANGED ret

\* out = output_padding(out, current) after the header
HeaderPadding ==
    /\ pc = "header_padding"
    /\ LET pad == padding_count(current)
       IN  /\ out' = WriteAt(out, outpos, Zeros(pad))
           /\ overrun' = overrun + Overrun(outsize, outpos, ulong(pad))
           /\ outpos' = Plus(outpos, ulong(pad))
           /\ current' = AddToInt(current, ulong(pad))
    /\ pc' = "header_done"       \* assert(is_aligned(current))
    /\ UNCHANGED <<input, caller, buffers, ranges, offsets, outsize, i>>
    /\ UNCHANGED unpackVars
    /\ UNCHANGED ret

\* if (n == 0) return;
EarlyEscape ==
    /\ pc = "header_done"
    /\ Len(offsets) = 0
    /\ pc' = IF caller = "builder" THEN "to_bytes_end" ELSE "packed"
    /\ UNCHANGED <<caller, i>>
    /\ UNCHANGED packVars
    /\ UNCHANGED unpackVars
    /\ UNCHANGED ret

EnterOffsetLoop ==
    /\ pc = "header_done"
    /\ Len(offsets) # 0
    /\ i' = 0
    /\ pc' = "offsets"
    /\ UNCHANGED caller
    /\ UNCHANGED packVars
    /\ UNCHANGED unpackVars
    /\ UNCHANGED ret

\* for (auto off : offsets) out = copy_to(off, out, current);
CopyOffset ==
    /\ pc = "offsets"
    /\ i < Len(offsets)
    /\ LET bytes == ArrayOffsetBytes(offsets[i + 1])
       IN  /\ out' = WriteAt(out, outpos, bytes)
           /\ overrun' = overrun +
                         Overrun(outsize, outpos, ulong(array_offset_size))
           /\ outpos' = Plus(outpos, ulong(array_offset_size))
           /\ current' = AddToInt(current, ulong(array_offset_size))
    /\ i' = i + 1
    /\ UNCHANGED <<input, pc, caller, buffers, ranges, offsets, outsize>>
    /\ UNCHANGED unpackVars
    /\ UNCHANGED ret

\* out = output_padding(out, current) after the offset table
OffsetPadding ==
    /\ pc = "offsets"
    /\ i = Len(offsets)
    /\ LET pad == padding_count(current)
       IN  /\ out' = WriteAt(out, outpos, Zeros(pad))
           /\ overrun' = overrun + Overrun(outsize, outpos, ulong(pad))
           /\ outpos' = Plus(outpos, ulong(pad))
           /\ current' = AddToInt(current, ulong(pad))
    /\ pc' = "offsets_done"      \* assert(is_aligned(current))
    /\ UNCHANGED <<input, caller, buffers, ranges, offsets, outsize, i>>
    /\ UNCHANGED unpackVars
    /\ UNCHANGED ret

\* assert(current = compute_data_start()): the operand is an assignment of
\* a size_t to the int current.  With NDEBUG the operand is not evaluated
\* and current keeps its value.
AssertDataStart ==
    /\ pc = "offsets_done"
    /\ \/ current' = ToInt(compute_data_start(ranges))
       \/ current' = current
    /\ i' = 0
    /\ pc' = "array_begin"       \* assert(current == offset._begin)
    /\ UNCHANGED <<input, caller, buffers, ranges, offsets, out, outsize, outpos,
                   overrun>>
    /\ UNCHANGED unpackVars
    /\ UNCHANGED ret

\* out = copy(range.begin(), range.end(), out); current += range.size();
CopyArray ==
    /\ pc = "array_begin"
    /\ i < Len(ranges)
    /\ LET range == ranges[i + 1]
       IN  /\ out' = WriteAt(out, outpos, range.bytes)
           /\ overrun' = overrun + Overrun(outsize, outpos, range.size)
           /\ outpos' = Plus(outpos, range.size)
           /\ current' = AddToInt(current, range.size)
    /\ pc' = "array_end"         \* assert(current == offset._end)
    /\ UNCHANGED <<input, caller, buffers, ranges, offsets, outsize, i>>
    /\ UNCHANGED unpackVars
    /\ UNCHANGED ret

\* output_padding(out, current); ++i
\* The pointer that output_padding returns is dropped: the zero bytes are
\* stored from `out` on, the cursor advances, `out` stays where it was.
\* The zero bytes that do not fit in r are stored behind it.
ArrayPadding ==
    /\ pc = "array_end"
    /\ LET pad  == padding_count(current)
           past == Overrun(outsize, outpos, ulong(pad))
       IN  /\ out' = WriteAt(out, outpos, Zeros(pad))
           /\ overrun' = overrun + past
           /\ ranges' \in Clobbered(ranges, past)
           /\ current' = AddToInt(current, ulong(pad))
    /\ i' = i + 1
    /\ pc' = "array_begin"
    /\ UNCHANGED <<input, caller, buffers, offsets, outsize, outpos>>
    /\ UNCHANGED unpackVars
    /\ UNCHANGED ret

\* assert(current == offset._begin) and assert(current == offset._end)
\* compare the int current, converted to ulong, with a ulong.  Where the
\* two differ, a build with assertions stops the run; a build with NDEBUG
\* goes on (CopyArray, ArrayPadding).
AssertionFailure ==
    /\ \/ /\ pc = "array_begin"
          /\ i < Len(ranges)
          /\ ToUlong(current) # offsets[i + 1]._begin
       \/ /\ pc = "array_end"
          /\ ToUlong(current) # offsets[i + 1]._end
    /\ pc' = "crashed"
    /\ UNCHANGED <<caller, i>>
    /\ UNCHANGED packVars
    /\ UNCHANGED unpackVars
    /\ UNCHANGED ret

\* !(i < ranges.size()): the loop over the ranges ends and copy_to returns;
\* pack returns r
PackReturn ==
    /\ pc = "array_begin"
    /\ ~(i < Len(ranges))
    /\ pc' = IF caller = "builder" THEN "to_bytes_end" ELSE "packed"
    /\ UNCHANGED <<caller, i>>
    /\ UNCHANGED packVars
    /\ UNCHANGED unpackVars
    /\ UNCHANGED ret

\* BfastBuilder::to_bytes after copy_to: there is no return statement, r is
\* destroyed with the frame of the call, and the vector the caller
\* receives, if the call returns at all, was never initialised.
to_bytes_return ==
    /\ pc = "to_bytes_end"
    /\ ret' = IndeterminateReturn
    /\ pc' = "to_bytes_done"
    /\ UNCHANGED <<caller, i>>
    /\ UNCHANGED packVars
    /\ UNCHANGED unpackVars

\* ... or flowing off the end of to_bytes stops the run.
to_bytes_abort ==
    /\ pc = "to_bytes_end"
    /\ pc' = "crashed"
    /\ UNCHANGED <<caller, i>>
    /\ UNCHANGED packVars
    /\ UNCHANGED unpackVars
    /\ UNCHANGED ret

\* A store past the end of the allocation is undefined.  The run may go on
\* as if nothing happened, or be stopped at any later point: the damage to
\* the heap shows at a later allocation or release, such as the copy of the
\* stream made for the by-value argument of unpack.
OverrunAbort ==
    /\ pc # "crashed"
    /\ overrun > 0
    /\ pc' = "crashed"
    /\ UNCHANGED <<caller, i>>
    /\ UNCHANGED packVars
    /\ UNCHANGED unpackVars
    /\ UNCHANGED ret

PackNext ==
    \/ add
    \/ add_abort
    \/ BfastData_pack
    \/ to_raw_data_abort
    \/ push_range
    \/ add_array
    \/ to_bytes
    \/ to_bytes_return
    \/ to_bytes_abort
    \/ BfastRawData_pack
    \/ pack_throw
    \/ pack_garbage
    \/ CopyHeader
    \/ HeaderPadding
    \/ EarlyEscape
    \/ EnterOffsetLoop
    \/ CopyOffset
    \/ OffsetPadding
    \/ AssertDataStart
    \/ CopyArray
    \/ ArrayPadding
    \/ AssertionFailure
    \/ PackReturn
    \/ OverrunAbort

\* ----------------------------------------------------------------- unpack
\* The streams handed to BfastRawData::unpack: the stream pack returned, or
\* that stream with one field changed, or cut short, or both.
ReplaceAt(s, pos, bytes) == StoreAt(s, pos, bytes)

\* 0xA5BF << 48 shifts an int by more than its width, so the value of the
\* constant depends on the build: the byte-swapped magic that the comment
\* intends, the shift count taken modulo 32 and sign-extended, or zero.
SWAPPED_MAGIC ==
    { <<0, 0, 0, 0, 0, 0, 191, 165>>,
      <<0, 0, 191, 165, 255, 255, 255, 255>>,
      <<0, 0, 0, 0, 0, 0, 0, 0>> }

MagicFlips(s) == {[s EXCEPT ![k] = 255 - s[k]] : k \in 1..8}

MagicSwaps(s) == {ReplaceAt(s, 0, m) : m \in SWAPPED_MAGIC}

\* 2^32 and 2^33
Word32 == <<0, 0, 0, 0, 1, 0, 0, 0>>
Word33 == <<0, 0, 0, 0, 2, 0, 0, 0>>

\* data_start and data_end changed: data_start = data_end + 64;
\* data_start = 2^33 with data_end = 2^32; data_start = 2^32 with
\* data_end = 2^33; data_start = 2^32 alone.
BoundsSwaps(s) ==
    { ReplaceAt(s, 8, Plus(SubSeq(s, 17, 24), ulong(alignment))),
      ReplaceAt(ReplaceAt(s, 8, Word33), 16, Word32),
      ReplaceAt(ReplaceAt(s, 8, Word32), 16, Word33),
      ReplaceAt(s, 8, Word32) }

\* a stream cut inside or right behind its offset table, or by one byte
Truncations(s) ==
    {SubSeq(s, 1, n) : n \in {m \in {header_size, array_offsets_start,
                                      array_offsets_start + 4,
                                      array_offsets_start + 8,
                                      array_offsets_start + 12, Len(s) - 1} :
                                 m >= header_size /\ m < Len(s)}}

\* a stream cut inside its header
HeaderCuts(s) == {SubSeq(s, 1, n) : n \in {0, 4, 8, 20, 24}}

\* the first offset entry ends beyond the stream, or begins after its end
OffsetDamages(s) ==
    IF Len(s) < array_offsets_start + array_offset_size THEN {}
    ELSE { ReplaceAt(s, array_offsets_start + 8, ulong(Len(s) + alignment)),
           ReplaceAt(s, array_offsets_start,
                     Plus(SubSeq(s, 73, 80), ulong(alignment))) }

\* one array more than the offset table holds
CountDamages(s) ==
    {ReplaceAt(s, 24, Plus(SubSeq(s, 25, 32), ulong(1)))}

Damaged(s) ==
    LET fields == MagicFlips(s) \cup MagicSwaps(s) \cup BoundsSwaps(s)
    IN  fields \cup Truncations(s) \cup OffsetDamages(s) \cup
        CountDamages(s) \cup UNION {HeaderCuts(d) : d \in fields \cup {s}}

\* A ulong read at position pos of the vector s: 8 bytes are loaded, those
\* inside s from s, those behind the end of s from whatever the heap holds
\* there.
ReadWord(s, pos) ==
    [k \in 1..8 |-> IF pos + k <= Len(s) THEN s[pos + k] ELSE Indeterminate]

\* const auto& h = *(Header*)&data[0]
ReadHeader(s) ==
    [magic      |-> ReadWord(s, 0),
     data_start |-> ReadWord(s, 8),
     data_end   |-> ReadWord(s, 16),
     num_arrays |-> ReadWord(s, 24)]

\* h.magic != MAGIC compares the two 64-bit values, that is all 8 bytes:
\* magic_ok says that the comparison can come out false.
magic_accept_swapped(m) == MayEqual(m, ulong(MAGIC)) \/ m \in SWAPPED_MAGIC

magic_ok(m) == MayEqual(m, ulong(MAGIC))

\* The offset entries that the model follows one by one.  Every stream
\* that holds its num_arrays field has fewer; the loop goes beyond them
\* only with a num_arrays read from behind the vector
\* (UnpackOffsetsBeyond).
MaxEntries == MaxRanges + MaxGarbageRanges

\* A caller hands a stream to BfastRawData::unpack: the stream that
\* BfastRawData::pack returned, as it is or damaged.  The model follows the
\* streams that it holds entirely.
CallUnpack ==
    /\ pc = "packed"
    /\ caller = "raw"
    /\ StreamHeld
    /\ \E s \in {out} \cup Damaged(out) : data' = s
    /\ pc' = "unpack"
    /\ UNCHANGED <<caller, i, h, uranges, oobread, err, result>>
    /\ UNCHANGED packVars
    /\ UNCHANGED ret

\* A caller hands the stream that BfastData::pack returned to
\* BfastData::unpack, which starts with BfastRawData.unpack(data).
CallDataUnpack ==
    /\ pc = "packed"
    /\ caller = "data"
    /\ data' = out
    /\ pc' = "unpack"
    /\ UNCHANGED <<caller, i, h, uranges, oobread, err, result>>
    /\ UNCHANGED packVars
    /\ UNCHANGED ret

\* BfastRawData::unpack, the two checks of the header
UnpackHeader ==
    /\ pc = "unpack"
    /\ LET hd == ReadHeader(data)
       IN  /\ h' = hd
           /\ \/ \* h.magic != MAGIC:
                 \* "invalid magic number, either not a BFast, or ..."
                 /\ ~(magic_ok(hd.magic) /\ Determinate(hd.magic))
                 /\ err' = "InvalidMagic"
                 /\ pc' = "thrown"
              \/ \* h.data_end < h.data_start:
                 \* "data ends before it starts"
                 /\ magic_ok(hd.magic)
                 /\ Less(hd.data_end, hd.data_start)
                 /\ err' = "InconsistentBounds"
                 /\ pc' = "thrown"
              \/ /\ magic_ok(hd.magic)
                 /\ NotLess(hd.data_end, hd.data_start)
                 /\ err' = err
                 /\ pc' = "unpack_offsets"
    /\ i' = 0
    /\ uranges' = <<>>
    /\ UNCHANGED <<caller, data, oobread, result>>
    /\ UNCHANGED packVars
    /\ UNCHANGED ret

\* one iteration of the loop over array_offsets
UnpackOffset ==
    /\ pc = "unpack_offsets"
    /\ i < MaxEntries
    /\ Less(ulong(i), h.num_arrays)
    /\ LET pos == array_offsets_start + array_offset_size * i
       IN  /\ uranges' = Append(uranges,
                                ArrayOffset(ReadWord(data, pos),
                                            ReadWord(data, pos + 8)))
           /\ oobread' = IF pos + array_offset_size <= Len(data)
                         THEN oobread ELSE oobread + 1
    /\ i' = i + 1
    /\ UNCHANGED <<pc, caller, data, h, err, result>>
    /\ UNCHANGED packVars
    /\ UNCHANGED ret

\* The loop over array_offsets from entry MaxEntries on, with a num_arrays
\* that is not determined: it reads an indeterminate number of further
\* entries from behind the vector, then unpack returns r with that many
\* further ranges behind those in uranges.
UnpackOffsetsBeyond ==
    /\ pc = "unpack_offsets"
    /\ i = MaxEntries
    /\ Less(ulong(i), h.num_arrays)
    /\ oobread' = oobread + 1
    /\ pc' = IF caller = "data" THEN "names" ELSE "unpacked_indeterminate"
    /\ UNCHANGED <<caller, i, data, h, uranges, err, result>>
    /\ UNCHANGED packVars
    /\ UNCHANGED ret

\* return r
UnpackReturn ==
    /\ pc = "unpack_offsets"
    /\ NotLess(ulong(i), h.num_arrays)
    /\ pc' = IF caller = "data" THEN "names" ELSE "unpacked"
    /\ UNCHANGED <<caller, i>>
    /\ UNCHANGED packVars
    /\ UNCHANGED unpackVars
    /\ UNCHANGED ret

\* A read behind the end of the vector may fault instead of yielding
\* bytes: the header of an empty vector (&data[0] is no address of a
\* byte), num_arrays of a vector without one, an offset entry that the
\* vector does not hold.
UnpackFault ==
    /\ \/ /\ pc = "unpack"
          /\ Len(data) = 0
       \/ /\ pc = "unpack_offsets"
          /\ \/ Len(data) < header_size
             \/ /\ Less(ulong(i), h.num_arrays)
                /\ array_offsets_start + array_offset_size * (i + 1)
                       > Len(data)
    /\ pc' = "crashed"
    /\ UNCHANGED <<caller, i>>
    /\ UNCHANGED packVars
    /\ UNCHANGED unpackVars
    /\ UNCHANGED ret

\* BfastData::unpack after the call of BfastRawData::unpack: it declares
\* `names`, converts ranges[0] to a string and ends.  Neither local is used,
\* no buffer is built and there is no return statement, so the BfastData
\* that the caller receives, if the call returns at all
\* (BfastData_unpack_abort below), was never initialised.
BfastData_unpack ==
    /\ pc = "names"
    /\ result' = IndeterminateReturn
    /\ pc' = "unpacked"
    /\ UNCHANGED <<caller, i, data, h, uranges, oobread, err>>
    /\ UNCHANGED packVars
    /\ UNCHANGED ret

\* BfastData::unpack when it does not return: raw_data.ranges[0] of an
\* empty vector, or flowing off the end of the function, stops the run.
BfastData_unpack_abort ==
    /\ pc = "names"
    /\ pc' = "crashed"
    /\ UNCHANGED <<caller, i>>
    /\ UNCHANGED packVars
    /\ UNCHANGED unpackVars
    /\ UNCHANGED ret

UnpackNext ==
    \/ CallUnpack
    \/ CallDataUnpack
    \/ UnpackHeader
    \/ UnpackOffset
    \/ UnpackOffsetsBeyond
    \/ UnpackReturn
    \/ UnpackFault
    \/ BfastData_unpack
    \/ BfastData_unpack_abort

Next == PackNext \/ UnpackNext

Spec == Init /\ [][Next]_vars


\* ================================================================= claims
\* the header and the offset table as they stand in the packed stream
StreamHeader == ReadHeader(out)

StreamOffset(k) ==
    ArrayOffset(ReadWord(out, array_offsets_start + 16 * k),
                ReadWord(out, array_offsets_start + 16 * k + 8))

HeaderChecked ==
    pc \in {"thrown", "unpack_offsets", "names", "unpacked",
            "unpacked_indeterminate"}

\* C1: round trip.  BfastData::unpack of the stream that BfastData::pack
\* returned for a list of named buffers yields that list: same number of
\* buffers, same order, same names, same bytes.
C1_RoundTrip ==
    (pc = "unpacked" /\ caller = "data" /\ data = out)
        => (err = "none" /\ result = Returned(buffers))

\* C2: padding zero-fill.  In the stream pack returns, every byte from
\* offsets[k].end up to, not including, offsets[k+1].begin is zero, for
\* every two consecutive ranges.
C2_PaddingZeroFill ==
    (pc = "packed" /\ caller = "raw" /\ StreamHeld) =>
        \A k \in 1..(Len(offsets) - 1) :
            \A p \in Value(offsets[k]._end) ..
                     (Value(offsets[k + 1]._begin) - 1) :
                out[p + 1] = 0

\* C3: empty input.  BfastData::pack of an empty list of named buffers
\* yields a stream of compute_data_start(0) = 64 bytes with num_arrays = 0
\* and data_start = data_end = 0, and BfastData::unpack of that stream
\* returns an empty list and reads no offset entry.
C3_EmptyInput ==
    /\ (pc = "packed" /\ caller = "data" /\ buffers = <<>>)
          => /\ Len(out) = 64
             /\ outsize = compute_data_start(<<>>)
             /\ StreamHeader.num_arrays = ulong(0)
             /\ StreamHeader.data_start = ulong(0)
             /\ StreamHeader.data_end = ulong(0)
    /\ (pc = "unpacked" /\ caller = "data" /\ buffers = <<>> /\ data = out)
          => /\ err = "none"
             /\ result = Returned(<<>>)
             /\ i = 0
             /\ oobread = 0

\* C4: alignment.  In every stream pack returns, header.data_start and the
\* begin of every entry of the offset table are multiples of 64.
C4_Alignment ==
    pc = "packed" =>
        /\ is_aligned(StreamHeader.data_start)
        /\ \A k \in 0..(Value(StreamHeader.num_arrays) - 1) :
               is_aligned(StreamOffset(k)._begin)

C4_Witness ==
    /\ pc = "packed"
    /\ Len(input) = 2
    /\ input[1].size = ulong(1)
    /\ StreamHeader.num_arrays = ulong(2)
    /\ StreamOffset(0)._end = ulong(129)
    /\ StreamOffset(1)._begin = ulong(192)

\* C5: corruption rejection.  unpack of a stream whose magic field differs
\* from MAGIC in any byte (a swapped magic included) throws the invalid
\* magic error; unpack of a stream with the right magic and
\* data_end < data_start, compared as 64-bit values, throws the
\* inconsistent bounds error; in both cases no offset entry is decoded and
\* no range or buffer is returned.  The fields are those of the stream: a
\* stream holds a magic field from 8 bytes on, the two bounds from 24 on.
C5_CorruptionRejection ==
    HeaderChecked =>
        LET rejected == /\ pc = "thrown"
                        /\ i = 0
                        /\ uranges = <<>>
                        /\ oobread = 0
                        /\ result = NotCalled
        IN  /\ (Len(data) >= 8 /\ SubSeq(data, 1, 8) # ulong(MAGIC))
                  => (err = "InvalidMagic" /\ rejected)
            /\ (/\ Len(data) >= 24
                /\ SubSeq(data, 1, 8) = ulong(MAGIC)
                /\ Less(SubSeq(data, 17, 24), SubSeq(data, 9, 16)))
                  => (err = "InconsistentBounds" /\ rejected)

C5_Witness ==
    /\ pc = "thrown"
    /\ err = "InconsistentBounds"
    /\ Len(data) >= array_offsets_start
    /\ SubSeq(data, 1, 8) = ulong(MAGIC)
    /\ SubSeq(data, 9, 16) = Word33
    /\ SubSeq(data, 17, 24) = Word32

\* C6: offset-table validation.  unpack never reads an offset entry from
\* beyond the end of the stream and never returns a span that violates
\* begin <= end <= len(stream): it fails instead.
C6_OffsetValidation ==
    caller = "raw" =>
        /\ oobread = 0
        /\ \A k \in 1..Len(uranges) :
               /\ Determinate(uranges[k]._begin)
               /\ Determinate(uranges[k]._end)
               /\ ~Less(uranges[k]._end, uranges[k]._begin)
               /\ ~Less(ulong(Len(data)), uranges[k]._end)

\* C7: name table encoding.  The stream BfastData::pack returns for n named
\* buffers has num_arrays = n + 1, logical buffer 0 holds
\* name_0 '\0' ... name_{n-1} '\0', and logical buffer k + 1 holds the bytes
\* of data buffer k.
C7_NameTable ==
    (pc = "packed" /\ caller = "data") =>
        /\ StreamHeader.num_arrays = ulong(Len(buffers) + 1)
        /\ Slice(out, Value(StreamOffset(0)._begin),
                      Value(StreamOffset(0)._end))
               = EncodeNames(buffers)
        /\ \A k \in 1..Len(buffers) :
               Slice(out, Value(StreamOffset(k)._begin),
                          Value(StreamOffset(k)._end))
                   = buffers[k].data.bytes

\* C8: offset layout.  compute_offsets returns one entry per range, the
\* first begins at aligned_value(aligned_value(32) + 16 k), each ends its
\* range's length after its begin, each next one begins at the aligned end
\* of the one before; compute_needed_size is the end of the last entry, or
\* compute_data_start() without ranges; the header copy_to writes has
\* data_start = offsets[0].begin and data_end = offsets[k-1].end.
C8_OffsetLayout ==
    pc \in {"copy_to", "header_padding", "header_done", "packed"} =>
        LET k    == Len(input)
            offs == compute_offsets(input)
        IN  /\ Len(offs) = k
            /\ k > 0 => offs[1]._begin
                          = aligned_value(Plus(aligned_value(ulong(32)),
                                               ulong(16 * k)))
            /\ \A j \in 1..k :
                   offs[j]._end = Plus(offs[j]._begin, input[j].size)
            /\ \A j \in 1..(k - 1) :
                   offs[j + 1]._begin = aligned_value(offs[j]._end)
            /\ compute_needed_size(input)
                   = IF k > 0 THEN offs[k]._end
                     ELSE compute_data_start(input)
            /\ (pc \in {"header_padding", "header_done", "packed"} /\ k > 0)
                   => /\ offsets = offs
                      /\ StreamHeader.data_start = offs[1]._begin
                      /\ StreamHeader.data_end = offs[k]._end
                      /\ outsize = offs[k]._end
                      /\ AllHeld(input) => Len(out) = Value(offs[k]._end)

C8_Witness ==
    /\ pc = "packed"
    /\ Len(input) = 2
    /\ input[1].size = ulong(1)
    /\ input[2].size = ulong(64)
    /\ StreamHeader.data_start = ulong(128)
    /\ StreamHeader.data_end = ulong(256)

\* C9: writer cursor assertions.  For any list of ranges the cursor is 64
\* after the header and its padding, compute_data_start() after the offset
\* table and its padding, offsets[i]._begin right before range i is copied
\* and offsets[i]._end right after.
C9_CursorAssertions ==
    /\ pc = "header_done"
          => (is_aligned(ToUlong(current)) /\ ToUlong(current) = ulong(64))
    /\ pc = "offsets_done"
          => /\ is_aligned(ToUlong(current))
             /\ ToUlong(current) = compute_data_start(ranges)
    /\ (pc = "array_begin" /\ i < Len(ranges))
          => ToUlong(current) = offsets[i + 1]._begin
    /\ pc = "array_end" => ToUlong(current) = offsets[i + 1]._end

\* C10: write bounds.  copy_to stores only inside the compute_needed_size()
\* bytes that pack allocated.
C10_WriteBounds ==
    caller \in {"raw", "builder"} =>
        /\ overrun = 0
        /\ ~Less(outsize, outpos)

====
